---------------------------- MODULE Spec2Model ----------------------------
(***************************************************************************)
(* Intelligent Personal Agent: the React chat client (App, ChatWindow,     *)
(* api.js, ToolLogPanel) together with the backend agent loop it talks to. *)
(* The client is modelled from its source. The backend orchestrator is not *)
(* among the source files: its per-turn state machine and the response it  *)
(* shapes are modelled from the design document (sections 4.2, 4.4, 6, 7). *)
(* The conversation history of this model is the client's message list.    *)
(* The backend's shared Conversation Store, its lock and concurrent turns  *)
(* (section 5) are a system of their own, SpecStore.                       *)
(***************************************************************************)
EXTENDS Integers, Sequences, FiniteSets, TLC

(***************************************************************************)
(* Bounds of the model.                                                    *)
(***************************************************************************)
\* the message list is not grown past this length by a new send
MaxMsgs == 4
\* last value of the wall clock (Date.now()) the model lets time reach
MaxClock == 1
\* Clear Chat requests that may be in flight at once
MaxClears == 1
\* turns the backend runs concurrently against the one Conversation Store
MaxTurns == 2

(***************************************************************************)
(* Values.                                                                 *)
(***************************************************************************)
\* JavaScript null (a response field the backend left empty) and undefined
\* (an object property that was never set)
Null == "null"
Undefined == "undefined"

\* characters of a typed text: one whitespace character, one other
Chars == {" ", "a"}
\* the texts the user types: empty, whitespace only, plain, padded
Texts == {<<>>, <<" ">>, <<"a">>, <<" ", "a", " ">>}

\* the suggestion buttons of the welcome screen: every prompt is non-blank
\* and has no surrounding whitespace
SAMPLE_PROMPTS == {<<"a">>}

\* the tool catalog (two of the five registered tools: one that cannot
\* fail and one that fails on an unknown city)
ToolNames == {"calculate_sum", "get_weather"}
ToolCanFail(tool) == tool = "get_weather"

\* engine-contact failures that abort a turn
EngineFailures == {"EngineTimeoutError"}

(***************************************************************************)
(* String.prototype.trim                                                   *)
(***************************************************************************)
IsSpace(c) == c = " "

RECURSIVE TrimStart(_)
TrimStart(s) ==
  IF s = <<>> THEN s
  ELSE IF IsSpace(Head(s)) THEN TrimStart(Tail(s)) ELSE s

RECURSIVE TrimEnd(_)
TrimEnd(s) ==
  IF s = <<>> THEN s
  ELSE IF IsSpace(s[Len(s)]) THEN TrimEnd(SubSeq(s, 1, Len(s) - 1)) ELSE s

\* handleSend tests the raw text
TrimOmitted(s) == s

Trim(s) == TrimEnd(TrimStart(s))

\* JavaScript truthiness of a string-or-null value
Truthy(v) == v \notin {Null, Undefined, ""}

VARIABLES
  \* App state
  messages, toolLogs,
  \* ChatWindow state
  inputValue, isLoading, error,
  \* handleSend suspended at its await: "idle" or "await"
  sendPc,
  \* HTTP: the chat request and response in flight, the clear requests and
  \* acknowledgements in flight
  chatReq, chatResp, clearReqs, clearAcks,
  \* backend: the turn the agent loop is running
  turn,
  \* Date.now()
  now,
  \* history variables: the handler call of the last step, the sends accepted
  \* since the message list was last reset, whether a send was in flight at
  \* that reset, the clears completed in a row
  lastCall, sendsSinceClear, staleSend, clearsInRow,
  \* backend under concurrent callers: the Conversation Store, the holder of
  \* its lock (0 when free), the state of every concurrent turn, and the
  \* history of the order turns arrived and completed in
  store, lock, turns, arrivals, completions

feVars == <<messages, toolLogs, inputValue, isLoading, error, sendPc>>
netVars == <<chatReq, chatResp, clearReqs, clearAcks>>
beVars == <<turn>>
histVars == <<lastCall, sendsSinceClear, staleSend, clearsInRow>>
clientVars == <<feVars, netVars, beVars, now, histVars>>
storeVars == <<store, lock, turns, arrivals, completions>>
vars == <<clientVars, storeVars>>


(***************************************************************************)
(* Values on the wire and in the backend.                                  *)
(***************************************************************************)
\* lastCall after any step that is not a call of handleSend
OtherCall == [op |-> "other", arg |-> <<>>]
\* lastCall after the step in which handleClearChat caught a failure
ClearFailedCall == [op |-> "clearFailed", arg |-> <<>>]

NoRequest == [status |-> "none", message |-> <<>>]
NoResponse == [status |-> "none"]

\* the turn record of the agent loop; FINALIZED and FAILED are terminal
IdleTurn ==
  [state |-> "IDLE", message |-> <<>>, engineCalls |-> 0, attempts |-> 0,
   toolCalls |-> 0, tool |-> Null, toolOk |-> FALSE, toolOutput |-> Null,
   thinking |-> Null]

\* the turn's working data does not outlive the turn
FinalizedTurn == [IdleTurn EXCEPT !.state = "FINALIZED"]
FailedTurn == [IdleTurn EXCEPT !.state = "FAILED"]

TurnOver(t) == t.state \in {"IDLE", "FINALIZED", "FAILED"}

(***************************************************************************)
(* ChatWindow.handleSend: the objects it builds.                           *)
(***************************************************************************)
\* const userMessage = { id: Date.now(), role: 'user', content, timestamp }
UserMessage(trimmedMessage, t) ==
  [id |-> t, role |-> "user", content |-> trimmedMessage,
   toolUsed |-> Undefined, toolOutput |-> Undefined, thinking |-> Undefined,
   timestamp |-> t]

\* const agentMessage = { id: Date.now() + 1, role: 'agent', ... }
AgentMessage(response, t) ==
  [id |-> t + 1, role |-> "agent", content |-> response.response,
   toolUsed |-> response.tool_used, toolOutput |-> response.tool_output,
   thinking |-> response.thinking, timestamp |-> t]

\* the content is the bare message, without the apology
ErrorMessageBare(errMessage, t) ==
  [id |-> t + 1, role |-> "agent", content |-> <<errMessage>>,
   toolUsed |-> Undefined, toolOutput |-> Undefined, thinking |-> Undefined,
   timestamp |-> t]

\* const errorMessage = { id: Date.now() + 1, role: 'agent', content: `Sorry...` }
ErrorMessage(errMessage, t) ==
  [id |-> t + 1, role |-> "agent",
   content |-> <<"Sorry, I encountered an error: ", errMessage>>,
   toolUsed |-> Undefined, toolOutput |-> Undefined, thinking |-> Undefined,
   timestamp |-> t]

\* the new message is put in front: [m, ...prev]
AppendMessageInFront(prev, m) == <<m>> \o prev

\* setMessages((prev) => [...prev, m])
AppendMessage(prev, m) == Append(prev, m)

\* the object handleSend passes to onToolLog
ToolLogEntry(response) ==
  [tool |-> response.tool_used, input |-> response.thinking,
   output |-> response.tool_output, success |-> TRUE]

\* the entry is added twice
HandleToolLogTwice(prev, log, t) ==
  Append(Append(prev, [tool |-> log.tool, input |-> log.input,
                       output |-> log.output, success |-> log.success,
                       timestamp |-> t]),
         [tool |-> log.tool, input |-> log.input, output |-> log.output,
          success |-> log.success, timestamp |-> t])

\* App.handleToolLog: setToolLogs((prev) => [...prev, { ...log, timestamp }])
HandleToolLog(prev, log, t) ==
  Append(prev, [tool |-> log.tool, input |-> log.input, output |-> log.output,
                success |-> log.success, timestamp |-> t])

\* the test of response.tool_used is missing
LogToolUsageUnconditional(prev, response, t) ==
  Append(prev, [tool |-> response.tool_used, input |-> response.thinking,
                output |-> response.tool_output, success |-> TRUE,
                timestamp |-> t])

\* if (response.tool_used) { onToolLog({...}) }
LogToolUsage(prev, response, t) ==
  IF Truthy(response.tool_used)
    THEN HandleToolLog(prev, ToolLogEntry(response), t)
    ELSE prev

\* the catch block only sets the error banner
MessagesAfterErrorBannerOnly(prev, errMessage, t) == prev

\* the message list the catch block of handleSend leaves
MessagesAfterError(prev, errMessage, t) ==
  AppendMessage(prev, ErrorMessage(errMessage, t))

(***************************************************************************)
(* api.js                                                                  *)
(***************************************************************************)
\* sendChatMessage's catch: the message of the Error it throws for an axios
\* error with a response, with a request but no response, or with neither
SendChatMessageError(err) ==
  IF err.kind = "response"
    THEN (IF Truthy(err.detail) THEN err.detail ELSE "Server error occurred")
    ELSE IF err.kind = "request"
      THEN "Unable to connect to the server. Is the backend running?"
      ELSE "Failed to send message"

\* setToolLogs([]) is missing from handleClearChat
ToolLogsNotCleared == toolLogs

\* setMessages([]) and setToolLogs([]) of handleClearChat
ClearedMessages == <<>>
ClearedToolLogs == <<>>

Min(a, b) == IF a < b THEN a ELSE b

(***************************************************************************)
(* Conversation Store under concurrent turns: values.                      *)
(***************************************************************************)
\* the concurrent turns, by the caller that submitted them
Turns == 1..MaxTurns

\* the lock when no turn holds it
Unlocked == 0

\* the states in which a turn waits on the engine or on a tool
WaitStates == {"REASONING", "TOOL_EXECUTING", "TOOL_RESULT_INTEGRATION"}

\* the store entries of a turn
StoredUserMessage(c) == [role |-> "user", turn |-> c]
StoredAgentMessage(c) == [role |-> "agent", turn |-> c]

\* the lock is kept for the whole turn
LockHeldAcrossWaits(c) == c

\* the lock after the snapshot was read: released before the engine is called
LockAfterSnapshot(c) == Unlocked

(***************************************************************************)
(* Initial state: the components as mounted, the backend idle.             *)
(***************************************************************************)
Init ==
  /\ messages = <<>>
  /\ toolLogs = <<>>
  /\ inputValue = <<>>
  /\ isLoading = FALSE
  /\ error = Null
  /\ sendPc = "idle"
  /\ chatReq = NoRequest
  /\ chatResp = NoResponse
  /\ clearReqs = 0
  /\ clearAcks = 0
  /\ turn = IdleTurn
  /\ now = 0
  /\ lastCall = OtherCall
  /\ sendsSinceClear = 0
  /\ staleSend = FALSE
  /\ clearsInRow = 0
  /\ store = <<>>
  /\ lock = Unlocked
  /\ turns = [c \in Turns |-> "NEW"]
  /\ arrivals = <<>>
  /\ completions = <<>>

(***************************************************************************)
(* ChatWindow                                                              *)
(***************************************************************************)
\* handleSend without the isLoading test of its early return
HandleSendWhileBusy(messageText) ==
  LET trimmedMessage == Trim(messageText) IN
  /\ lastCall' = [op |-> "handleSend", arg |-> messageText]
  /\ UNCHANGED storeVars
  /\ IF trimmedMessage = <<>>
       THEN UNCHANGED <<feVars, netVars, sendsSinceClear, staleSend, clearsInRow>>
       ELSE /\ error' = Null
            /\ inputValue' = <<>>
            /\ messages' = AppendMessage(messages, UserMessage(trimmedMessage, now))
            /\ isLoading' = TRUE
            /\ sendPc' = "await"
            /\ chatReq' = [status |-> "sent", message |-> trimmedMessage]
            /\ sendsSinceClear' = sendsSinceClear + 1
            /\ clearsInRow' = 0
            /\ UNCHANGED <<toolLogs, chatResp, clearReqs, clearAcks, staleSend>>
  /\ UNCHANGED <<beVars, now>>

\* handleSend up to its await: the early return, then the user message, the
\* loading flag and the chat request
HandleSend(messageText) ==
  LET trimmedMessage == Trim(messageText) IN
  /\ lastCall' = [op |-> "handleSend", arg |-> messageText]
  /\ UNCHANGED storeVars
  /\ IF trimmedMessage = <<>> \/ isLoading
       THEN UNCHANGED <<feVars, netVars, sendsSinceClear, staleSend, clearsInRow>>
       ELSE /\ error' = Null
            /\ inputValue' = <<>>
            /\ messages' = AppendMessage(messages, UserMessage(trimmedMessage, now))
            /\ isLoading' = TRUE
            /\ sendPc' = "await"
            /\ chatReq' = [status |-> "sent", message |-> trimmedMessage]
            /\ sendsSinceClear' = sendsSinceClear + 1
            /\ clearsInRow' = 0
            /\ UNCHANGED <<toolLogs, chatResp, clearReqs, clearAcks, staleSend>>
  /\ UNCHANGED <<beVars, now>>

\* a send that would be accepted is offered only while the list has room
HasRoom(messageText) ==
  Trim(messageText) = <<>> \/ isLoading \/ Len(messages) + 2 <= MaxMsgs

\* onChange of the Input (disabled while loading)
ChangeInput(value) ==
  /\ ~isLoading
  /\ value # inputValue
  /\ inputValue' = value
  /\ lastCall' = OtherCall
  /\ UNCHANGED storeVars
  /\ UNCHANGED <<messages, toolLogs, isLoading, error, sendPc, netVars, beVars,
                 now, sendsSinceClear, staleSend, clearsInRow>>

\* handleKeyPress: Enter in the Input (disabled while loading)
PressEnter ==
  /\ ~isLoading
  /\ HasRoom(inputValue)
  /\ HandleSend(inputValue)

\* the Send button, disabled={!inputValue.trim() || isLoading}
ClickSend ==
  /\ ~(Trim(inputValue) = <<>> \/ isLoading)
  /\ HasRoom(inputValue)
  /\ HandleSend(inputValue)

\* handleSuggestion: the welcome screen is rendered only when
\* messages.length === 0 && !isLoading
ClickSuggestion(prompt) ==
  /\ Len(messages) = 0 /\ ~isLoading
  /\ HasRoom(prompt)
  /\ HandleSend(prompt)

\* handleSend after its await resolved: the agent message, the tool log,
\* the finally block
SendResolved ==
  /\ sendPc = "await"
  /\ chatResp.status = "ok"
  /\ messages' = AppendMessage(messages, AgentMessage(chatResp.data, now))
  /\ toolLogs' = LogToolUsage(toolLogs, chatResp.data, now)
  /\ isLoading' = FALSE
  /\ sendPc' = "idle"
  /\ chatResp' = NoResponse
  /\ chatReq' = NoRequest
  /\ lastCall' = OtherCall
  /\ UNCHANGED storeVars
  /\ clearsInRow' = 0
  /\ UNCHANGED <<inputValue, error, clearReqs, clearAcks, beVars, now,
                 sendsSinceClear, staleSend>>

\* the catch block without the finally block: isLoading is left set
SendRejectedNoFinally(err) ==
  /\ sendPc = "await"
  /\ error' = SendChatMessageError(err)
  /\ messages' = MessagesAfterError(messages, SendChatMessageError(err), now)
  /\ sendPc' = "idle"
  /\ chatResp' = NoResponse
  /\ chatReq' = NoRequest
  /\ lastCall' = OtherCall
  /\ UNCHANGED storeVars
  /\ clearsInRow' = 0
  /\ UNCHANGED <<toolLogs, inputValue, isLoading, clearReqs, clearAcks, now,
                 sendsSinceClear, staleSend>>

\* handleSend after its await rejected: the catch and finally blocks
SendRejected(err) ==
  /\ sendPc = "await"
  /\ error' = SendChatMessageError(err)
  /\ messages' = MessagesAfterError(messages, SendChatMessageError(err), now)
  /\ isLoading' = FALSE
  /\ sendPc' = "idle"
  /\ chatResp' = NoResponse
  /\ chatReq' = NoRequest
  /\ lastCall' = OtherCall
  /\ UNCHANGED storeVars
  /\ clearsInRow' = 0
  /\ UNCHANGED <<toolLogs, inputValue, clearReqs, clearAcks, now,
                 sendsSinceClear, staleSend>>

\* the backend answered with an error status
ServerError ==
  /\ chatResp.status = "error"
  /\ SendRejected([kind |-> "response", detail |-> chatResp.detail])
  /\ UNCHANGED turn

\* no response was received (connection lost, axios timeout); a turn still
\* running for the request is aborted and its result discarded
TransportError ==
  /\ SendRejected([kind |-> "request", detail |-> Null])
  /\ turn' = IF TurnOver(turn) THEN turn ELSE FailedTurn

(***************************************************************************)
(* App                                                                     *)
(***************************************************************************)
\* handleClearChat up to its await (the Clear Chat button is never disabled)
HandleClearChat ==
  /\ clearReqs + clearAcks < MaxClears
  /\ clearReqs' = clearReqs + 1
  /\ lastCall' = OtherCall
  /\ UNCHANGED storeVars
  /\ UNCHANGED <<feVars, chatReq, chatResp, clearAcks, beVars, now,
                 sendsSinceClear, staleSend, clearsInRow>>

\* handleClearChat after clearChatHistory resolved
ClearResolved ==
  /\ clearAcks > 0
  /\ clearAcks' = clearAcks - 1
  /\ messages' = ClearedMessages
  /\ toolLogs' = ClearedToolLogs
  /\ lastCall' = OtherCall
  /\ UNCHANGED storeVars
  /\ sendsSinceClear' = 0
  /\ staleSend' = (sendPc = "await")
  /\ clearsInRow' = Min(clearsInRow + 1, 2)
  /\ UNCHANGED <<inputValue, isLoading, error, sendPc, chatReq, chatResp,
                 clearReqs, beVars, now>>

\* the lists are reset before the request is known to have succeeded
ClearRejectedAfterReset ==
  /\ \/ clearReqs > 0 /\ clearReqs' = clearReqs - 1 /\ UNCHANGED clearAcks
     \/ clearAcks > 0 /\ clearAcks' = clearAcks - 1 /\ UNCHANGED clearReqs
  /\ lastCall' = ClearFailedCall
  /\ UNCHANGED storeVars
  /\ messages' = ClearedMessages
  /\ toolLogs' = ClearedToolLogs
  /\ UNCHANGED <<inputValue, isLoading, error, sendPc, chatReq, chatResp,
                 beVars, now, sendsSinceClear, staleSend, clearsInRow>>

\* handleClearChat after clearChatHistory threw: console.error only. The
\* request or its acknowledgement was lost on the way.
ClearRejected ==
  /\ \/ clearReqs > 0 /\ clearReqs' = clearReqs - 1 /\ UNCHANGED clearAcks
     \/ clearAcks > 0 /\ clearAcks' = clearAcks - 1 /\ UNCHANGED clearReqs
  /\ lastCall' = ClearFailedCall
  /\ UNCHANGED storeVars
  /\ UNCHANGED <<feVars, chatReq, chatResp, beVars, now,
                 sendsSinceClear, staleSend, clearsInRow>>

\* handleClearLogs: the Clear button of the log panel, shown when
\* logs.length > 0
HandleClearLogs ==
  /\ Len(toolLogs) > 0
  /\ toolLogs' = ClearedToolLogs
  /\ lastCall' = OtherCall
  /\ UNCHANGED storeVars
  /\ clearsInRow' = 0
  /\ UNCHANGED <<messages, inputValue, isLoading, error, sendPc, netVars,
                 beVars, now, sendsSinceClear, staleSend>>

\* time passes: Date.now() never goes back
Tick ==
  /\ now < MaxClock
  /\ now' = now + 1
  /\ lastCall' = OtherCall
  /\ UNCHANGED storeVars
  /\ UNCHANGED <<feVars, netVars, beVars, sendsSinceClear, staleSend, clearsInRow>>

(***************************************************************************)
(* Backend: tool registry, trace recorder.                                  *)
(***************************************************************************)
\* executor outcome: the tool's output, or the failure it raised
ToolFailure == "ToolExecutionError"
ToolOutput(tool, ok) == IF ok THEN "output" ELSE ToolFailure

\* the engine's final text
FinalText(t) == <<"final_text">>

\* Trace Recorder: the response shaped from the turn's terminal state
TraceRecorder(t) ==
  [response |-> FinalText(t), tool_used |-> t.tool,
   tool_output |-> t.toolOutput, thinking |-> t.thinking]

\* retries the orchestrator may spend on one engine invocation
MaxRetries == 1

(***************************************************************************)
(* Backend: the agent loop, one step per state of its state machine.       *)
(***************************************************************************)
UNCHANGED_FE == UNCHANGED <<feVars, clearReqs, clearAcks, now,
                            sendsSinceClear, staleSend, clearsInRow>>

\* RECEIVED: the request is taken up; empty input is rejected before any
\* engine call
BeReceive ==
  /\ chatReq.status = "sent"
  /\ TurnOver(turn)
  /\ chatReq' = [chatReq EXCEPT !.status = "taken"]
  /\ IF Trim(chatReq.message) = <<>>
       THEN /\ turn' = FailedTurn
            /\ chatResp' = [status |-> "error", detail |-> "EmptyMessageError"]
       ELSE /\ turn' = [IdleTurn EXCEPT !.state = "RECEIVED",
                                        !.message = chatReq.message]
            /\ UNCHANGED chatResp
  /\ lastCall' = OtherCall
  /\ UNCHANGED storeVars
  /\ UNCHANGED_FE

\* REASONING: the prompt is built and the engine invoked
BeReason ==
  /\ turn.state = "RECEIVED"
  /\ turn' = [turn EXCEPT !.state = "REASONING", !.engineCalls = @ + 1,
                          !.attempts = 1]
  /\ lastCall' = OtherCall
  /\ UNCHANGED storeVars
  /\ UNCHANGED <<chatReq, chatResp>>
  /\ UNCHANGED_FE

\* Decision: the engine answered {final_text}
EngineDirectAnswer ==
  /\ turn.state = "REASONING"
  /\ turn' = [turn EXCEPT !.state = "DIRECT_ANSWER"]
  /\ lastCall' = OtherCall
  /\ UNCHANGED storeVars
  /\ UNCHANGED <<chatReq, chatResp>>
  /\ UNCHANGED_FE

\* Decision: the engine answered {tool_name, tool_arguments, rationale_text}
EngineToolCall(tool) ==
  /\ turn.state = "REASONING"
  /\ turn' = [turn EXCEPT !.state = "TOOL_SELECTED", !.tool = tool,
                          !.thinking = "rationale_text"]
  /\ lastCall' = OtherCall
  /\ UNCHANGED storeVars
  /\ UNCHANGED <<chatReq, chatResp>>
  /\ UNCHANGED_FE

\* TOOL_EXECUTING: the resolved executor is invoked
ToolStart ==
  /\ turn.state = "TOOL_SELECTED"
  /\ turn' = [turn EXCEPT !.state = "TOOL_EXECUTING", !.toolCalls = @ + 1]
  /\ lastCall' = OtherCall
  /\ UNCHANGED storeVars
  /\ UNCHANGED <<chatReq, chatResp>>
  /\ UNCHANGED_FE

\* TOOL_RESULT_INTEGRATION: on success or failure alike the result is added
\* to the context and the engine invoked a second time
ToolFinish(ok) ==
  /\ turn.state = "TOOL_EXECUTING"
  /\ ok \/ ToolCanFail(turn.tool)
  /\ turn' = [turn EXCEPT !.state = "TOOL_RESULT_INTEGRATION", !.toolOk = ok,
                          !.toolOutput = ToolOutput(turn.tool, ok),
                          !.engineCalls = @ + 1, !.attempts = 1]
  /\ lastCall' = OtherCall
  /\ UNCHANGED storeVars
  /\ UNCHANGED <<chatReq, chatResp>>
  /\ UNCHANGED_FE

\* FINALIZED: the shaped response is returned (after the direct answer, or
\* after the engine's second answer)
Finalize ==
  /\ turn.state \in {"DIRECT_ANSWER", "TOOL_RESULT_INTEGRATION"}
  /\ turn' = FinalizedTurn
  /\ chatResp' = [status |-> "ok", data |-> TraceRecorder(turn)]
  /\ lastCall' = OtherCall
  /\ UNCHANGED storeVars
  /\ UNCHANGED chatReq
  /\ UNCHANGED_FE

\* the retry is issued as one more invocation of the engine
EngineRetryAsNewCall ==
  /\ turn.state \in {"REASONING", "TOOL_RESULT_INTEGRATION"}
  /\ turn.attempts <= MaxRetries
  /\ turn' = [turn EXCEPT !.attempts = @ + 1, !.engineCalls = @ + 1]
  /\ lastCall' = OtherCall
  /\ UNCHANGED storeVars
  /\ UNCHANGED <<chatReq, chatResp>>
  /\ UNCHANGED_FE

\* a transient engine-call failure is retried, once per invocation
EngineRetry ==
  /\ turn.state \in {"REASONING", "TOOL_RESULT_INTEGRATION"}
  /\ turn.attempts <= MaxRetries
  /\ turn' = [turn EXCEPT !.attempts = @ + 1]
  /\ lastCall' = OtherCall
  /\ UNCHANGED storeVars
  /\ UNCHANGED <<chatReq, chatResp>>
  /\ UNCHANGED_FE

\* an engine-contact failure aborts the turn before FINALIZED: nothing is
\* appended and a distinct error is returned
EngineFail(failure) ==
  /\ turn.state \in {"REASONING", "TOOL_RESULT_INTEGRATION"}
  /\ turn' = FailedTurn
  /\ chatResp' = [status |-> "error", detail |-> failure]
  /\ lastCall' = OtherCall
  /\ UNCHANGED storeVars
  /\ UNCHANGED chatReq
  /\ UNCHANGED_FE

\* clear_history: the request is served and acknowledged
BeClear ==
  /\ clearReqs > 0
  /\ clearReqs' = clearReqs - 1
  /\ clearAcks' = clearAcks + 1
  /\ lastCall' = OtherCall
  /\ UNCHANGED storeVars
  /\ UNCHANGED <<feVars, chatReq, chatResp, turn, now,
                 sendsSinceClear, staleSend, clearsInRow>>

(***************************************************************************)
(* The system.                                                             *)
(***************************************************************************)
Next ==
  \/ \E value \in Texts : ChangeInput(value)
  \/ PressEnter
  \/ ClickSend
  \/ \E prompt \in SAMPLE_PROMPTS : ClickSuggestion(prompt)
  \/ SendResolved
  \/ ServerError
  \/ TransportError
  \/ HandleClearChat
  \/ ClearResolved
  \/ ClearRejected
  \/ HandleClearLogs
  \/ Tick
  \/ BeReceive
  \/ BeReason
  \/ EngineDirectAnswer
  \/ \E tool \in ToolNames : EngineToolCall(tool)
  \/ ToolStart
  \/ \E ok \in BOOLEAN : ToolFinish(ok)
  \/ Finalize
  \/ EngineRetry
  \/ \E failure \in EngineFailures : EngineFail(failure)
  \/ BeClear

Spec == Init /\ [][Next]_vars

\* The request of a suspended handleSend always settles: the axios client
\* gives up after its timeout (60000 ms) when nothing else has settled it,
\* and the continuation of handleSend then runs.
SpecLive == Spec /\ WF_vars(SendResolved \/ ServerError \/ TransportError)

(***************************************************************************)
(* The handlers called outside the rendered controls: handleSend is also   *)
(* called while a send is in flight, which the disabled Input and Send     *)
(* button and the hidden suggestions never do.                             *)
(***************************************************************************)
CallHandleSendWhileLoading(messageText) ==
  /\ isLoading
  /\ HandleSend(messageText)

NextCalls ==
  \/ Next
  \/ \E messageText \in SAMPLE_PROMPTS : CallHandleSendWhileLoading(messageText)

SpecCalls == Init /\ [][NextCalls]_vars

(***************************************************************************)
(* Backend under concurrent callers: every turn runs the agent loop; the   *)
(* Conversation Store is shared and guarded by one lock.                   *)
(***************************************************************************)
\* submit_message: the request arrives
Submit(c) ==
  /\ turns[c] = "NEW"
  /\ turns' = [turns EXCEPT ![c] = "RECEIVED"]
  /\ arrivals' = Append(arrivals, c)
  /\ UNCHANGED <<store, lock, completions, clientVars>>

\* the turn takes the lock to read the snapshot
AcquireForSnapshot(c) ==
  /\ turns[c] = "RECEIVED"
  /\ lock = Unlocked
  /\ lock' = c
  /\ turns' = [turns EXCEPT ![c] = "SNAPSHOT"]
  /\ UNCHANGED <<store, arrivals, completions, clientVars>>

\* the snapshot is read and the user's own message stored; the engine is
\* invoked
SnapshotDone(c) ==
  /\ turns[c] = "SNAPSHOT"
  /\ store' = Append(store, StoredUserMessage(c))
  /\ lock' = LockAfterSnapshot(c)
  /\ turns' = [turns EXCEPT ![c] = "REASONING"]
  /\ UNCHANGED <<arrivals, completions, clientVars>>

\* the engine answered: a direct answer, or a tool-call intent
EngineAnswers(c, direct) ==
  /\ turns[c] = "REASONING"
  /\ turns' = [turns EXCEPT ![c] = IF direct THEN "DIRECT_ANSWER"
                                              ELSE "TOOL_EXECUTING"]
  /\ UNCHANGED <<store, lock, arrivals, completions, clientVars>>

\* the tool returned (or failed, which is recovered locally); the engine is
\* invoked a second time
ToolReturns(c) ==
  /\ turns[c] = "TOOL_EXECUTING"
  /\ turns' = [turns EXCEPT ![c] = "TOOL_RESULT_INTEGRATION"]
  /\ UNCHANGED <<store, lock, arrivals, completions, clientVars>>

\* the engine composed the final answer from the tool result
EngineComposes(c) ==
  /\ turns[c] = "TOOL_RESULT_INTEGRATION"
  /\ turns' = [turns EXCEPT ![c] = "DIRECT_ANSWER"]
  /\ UNCHANGED <<store, lock, arrivals, completions, clientVars>>

\* the timeout budget of an engine or tool call expired: the turn fails and
\* appends nothing
TimeoutExpires(c) ==
  /\ turns[c] \in WaitStates
  /\ turns' = [turns EXCEPT ![c] = "FAILED"]
  /\ UNCHANGED <<store, lock, arrivals, completions, clientVars>>

\* the turn takes the lock for the final append
AcquireForAppend(c) ==
  /\ turns[c] = "DIRECT_ANSWER"
  /\ lock = Unlocked
  /\ lock' = c
  /\ turns' = [turns EXCEPT ![c] = "APPENDING"]
  /\ UNCHANGED <<store, arrivals, completions, clientVars>>

\* FINALIZED: the agent message is appended, the lock released and the
\* response returned
AppendDone(c) ==
  /\ turns[c] = "APPENDING"
  /\ store' = Append(store, StoredAgentMessage(c))
  /\ lock' = Unlocked
  /\ turns' = [turns EXCEPT ![c] = "FINALIZED"]
  /\ completions' = Append(completions, c)
  /\ UNCHANGED <<arrivals, clientVars>>

\* clear(): takes the same lock, empties the store, releases
StoreClear ==
  /\ lock = Unlocked
  /\ store # <<>>
  /\ store' = <<>>
  /\ UNCHANGED <<lock, turns, arrivals, completions, clientVars>>

NextStore ==
  \/ \E c \in Turns : Submit(c)
  \/ \E c \in Turns : AcquireForSnapshot(c)
  \/ \E c \in Turns : SnapshotDone(c)
  \/ \E c \in Turns : \E direct \in BOOLEAN : EngineAnswers(c, direct)
  \/ \E c \in Turns : ToolReturns(c)
  \/ \E c \in Turns : EngineComposes(c)
  \/ \E c \in Turns : TimeoutExpires(c)
  \/ \E c \in Turns : AcquireForAppend(c)
  \/ \E c \in Turns : AppendDone(c)
  \/ StoreClear

SpecStore == Init /\ [][NextStore]_vars

(***************************************************************************)
(* Properties.                                                             *)
(***************************************************************************)
\* a text with no character other than whitespace
IsBlank(s) == \A i \in 1..Len(s) : s[i] = " "

\* this step is the continuation of handleSend after its await: the try
\* block ran to its end (the error banner stays unset), or the catch block ran
SendSettles == sendPc = "await" /\ sendPc' = "idle"
SendSucceeds == SendSettles /\ error' = Null
SendFails == SendSettles /\ error' # Null

\* this step is a call of handleSend that was accepted
SendAccepted == sendPc = "idle" /\ sendPc' = "await"

\* this step is the continuation of one handleClearChat after its await
ClearSettles == clearReqs' + clearAcks' < clearReqs + clearAcks

\* the roles of a history that grew by turns from empty
Alternates(history) ==
  \A i \in 1..Len(history) :
    history[i].role = IF i % 2 = 1 THEN "user" ELSE "agent"

\* C1: a turn whose engine call fails outright appends no agent message:
\* when the send fails the history is left as it was after the user's own
\* message was appended.
C1_FailedTurnAddsNoAgentMessage ==
  [][SendFails => messages' = messages]_vars

\* C2: a send whose text is empty or only whitespace is rejected before any
\* request: no chat request is issued, no message is appended, and the
\* loading and error state are unchanged.
C2_BlankSendRejected ==
  [][(lastCall'.op = "handleSend" /\ IsBlank(lastCall'.arg))
       => UNCHANGED <<messages, toolLogs, inputValue, isLoading, error,
                      sendPc, chatReq, chatResp, turn>>]_vars

\* C2 witness: handleSend was called with a whitespace-only text while a
\* conversation was under way
C2_Witness ==
  /\ lastCall.op = "handleSend"
  /\ lastCall.arg = <<" ">>
  /\ Len(messages) = 2

\* C3: a turn whose tool failed still completes with a natural-language
\* response, and the tool invocation record of that turn has success = false
\* (success = true only when the tool succeeded).
C3_FailedToolRecordedUnsuccessful ==
  /\ \A i \in 1..Len(messages) :
       messages[i].toolOutput = ToolFailure => messages[i].content = <<"final_text">>
  /\ \A i \in 1..Len(toolLogs) :
       toolLogs[i].success = (toolLogs[i].output # ToolFailure)

\* C4: n sequential completed sends starting from an empty history leave a
\* history of length 2n that alternates user, agent (while the n-th send is
\* in flight the history ends with its user message).
C4_SequentialSendsAlternate ==
  ~staleSend =>
    /\ Alternates(messages)
    /\ Len(messages) =
         IF sendPc = "idle" THEN 2 * sendsSinceClear ELSE 2 * sendsSinceClear - 1

\* C4 witness: two sends completed one after the other from the empty history
C4_Witness ==
  /\ ~staleSend
  /\ sendPc = "idle"
  /\ sendsSinceClear = 2
  /\ Len(messages) = 4

\* C5: after a clear has completed, the next accepted send sees a history
\* that holds its own message only, and the tool log holds nothing from
\* before the clear.
C5_SendAfterClearSeesOnlyItself ==
  [][(SendAccepted /\ sendsSinceClear = 0)
       => /\ messages' = <<UserMessage(Trim(lastCall'.arg), now)>>
          /\ toolLogs' = <<>>]_vars

\* C6: in every turn at most one tool is invoked, no turn goes back to
\* REASONING once a tool result is being integrated, and one completed send
\* adds at most one entry to the tool execution log.
C6_OneToolPerTurn ==
  [][/\ turn'.toolCalls <= 1
     /\ ~(turn.state = "TOOL_RESULT_INTEGRATION" /\ turn'.state = "REASONING")
     /\ Len(toolLogs') <= Len(toolLogs) + 1
     /\ (Len(toolLogs') > Len(toolLogs) => SendSucceeds)]_vars

\* C6 witness: one send that used a tool completed and the log holds its
\* one entry
C6_Witness ==
  /\ ~staleSend
  /\ sendPc = "idle"
  /\ sendsSinceClear = 1
  /\ Len(messages) = 2
  /\ Truthy(messages[2].toolUsed)
  /\ Len(toolLogs) = 1

\* the order in which a turn visits its states
TurnOrder ==
  {<<"IDLE", "RECEIVED">>, <<"FINALIZED", "RECEIVED">>, <<"FAILED", "RECEIVED">>,
   <<"RECEIVED", "REASONING">>,
   <<"REASONING", "DIRECT_ANSWER">>, <<"REASONING", "TOOL_SELECTED">>,
   <<"TOOL_SELECTED", "TOOL_EXECUTING">>,
   <<"TOOL_EXECUTING", "TOOL_RESULT_INTEGRATION">>,
   <<"DIRECT_ANSWER", "FINALIZED">>, <<"TOOL_RESULT_INTEGRATION", "FINALIZED">>,
   <<"RECEIVED", "FAILED">>, <<"REASONING", "FAILED">>,
   <<"DIRECT_ANSWER", "FAILED">>, <<"TOOL_SELECTED", "FAILED">>,
   <<"TOOL_EXECUTING", "FAILED">>, <<"TOOL_RESULT_INTEGRATION", "FAILED">>}

C8_AppendOnlyExceptClear ==
  [][messages' # messages
       => \/ /\ Len(messages') = Len(messages) + 1
             /\ SubSeq(messages', 1, Len(messages)) = messages
          \/ /\ ClearSettles
             /\ messages' = <<>>]_vars

\* C8 witness: a history that had grown by appends was cleared in one step
\* while a send was in flight
C8_Witness ==
  /\ sendPc = "await"
  /\ staleSend
  /\ sendsSinceClear = 0
  /\ messages = <<>>
  /\ clearsInRow = 1

\* C9: when the engine answers directly the turn's tool_used, tool_output and
\* thinking are null; a response whose tool_used is null adds no entry to the
\* tool log, and an entry is added exactly when tool_used is non-null.
C9_LogEntryIffToolUsed ==
  [][/\ (turn'.state = "DIRECT_ANSWER"
           => turn'.tool = Null /\ turn'.toolOutput = Null /\ turn'.thinking = Null)
     /\ (SendSucceeds =>
           IF chatResp.data.tool_used = Null
             THEN toolLogs' = toolLogs
             ELSE /\ Len(toolLogs') = Len(toolLogs) + 1
                  /\ toolLogs'[Len(toolLogs')].tool = chatResp.data.tool_used)
     /\ (Len(toolLogs') > Len(toolLogs)
           => SendSucceeds /\ chatResp.data.tool_used # Null)]_vars

\* C9 witness: a direct answer and then an answer that used a tool were
\* received, and the log holds the one entry of the second
C9_Witness ==
  /\ Len(messages) = 4
  /\ messages[2].toolUsed = Null
  /\ Truthy(messages[4].toolUsed)
  /\ Len(toolLogs) = 1
  /\ toolLogs[1].tool = messages[4].toolUsed

\* C10 as stated: clear_history always succeeds (every clear that settles has
\* been acknowledged and leaves the empty history) and is idempotent.
C10_ClearAlwaysSucceeds ==
  [][ClearSettles => messages' = <<>> /\ toolLogs' = <<>>]_vars

\* C10 as amended: a clear that settles either fails and leaves the message
\* list and the tool log as they were, or succeeds and leaves both empty; it
\* touches nothing else of the chat window; a clear that follows a successful
\* clear leaves the state that clear left.
C10_ClearIdempotent ==
  [][ClearSettles
       => /\ \/ messages' = <<>> /\ toolLogs' = <<>>
             \/ UNCHANGED <<messages, toolLogs>>
          /\ UNCHANGED <<inputValue, isLoading, error, sendPc, chatReq, chatResp>>
          /\ (clearsInRow >= 1 => UNCHANGED <<messages, toolLogs>>)]_vars

\* C10 witness: the clear succeeded twice in a row
C10_Witness ==
  /\ clearsInRow = 2
  /\ messages = <<>>
  /\ toolLogs = <<>>

\* position of a turn in an order of turns (0 when absent)
RECURSIVE IndexOf(_, _)
IndexOf(order, c) ==
  IF order = <<>> THEN 0
  ELSE IF order[Len(order)] = c THEN Len(order)
  ELSE IndexOf(SubSeq(order, 1, Len(order) - 1), c)

\* C11: no turn holds the store's lock while it waits on an engine or tool
\* call: the lock is held only by a turn that reads the snapshot or does its
\* final append; and the agent messages in the store stand in the order their
\* turns completed, whatever order the requests arrived in.
C11_LockOnlyAroundSnapshotAndAppend ==
  /\ \A c \in Turns : turns[c] \in WaitStates => lock # c
  /\ lock # Unlocked => turns[lock] \in {"SNAPSHOT", "APPENDING"}
  /\ \A i, j \in 1..Len(store) :
       i < j /\ store[i].role = "agent" /\ store[j].role = "agent"
         => /\ IndexOf(completions, store[i].turn) > 0
            /\ IndexOf(completions, store[i].turn)
                 < IndexOf(completions, store[j].turn)

\* the store holds the user message of the request that arrived first, and
\* after it both agent messages, that of the later request first
C11_Witness ==
  /\ Len(arrivals) >= 2
  /\ \E i, j \in 1..Len(store) :
       /\ i < j
       /\ store[i] = StoredAgentMessage(arrivals[2])
       /\ store[j] = StoredAgentMessage(arrivals[1])
       /\ \E k \in 1..(i - 1) : store[k] = StoredUserMessage(arrivals[1])

\* C12: at most one chat request is in flight: a call of handleSend while
\* isLoading is true, whatever its text, issues no request, appends no
\* message and changes no state of the client or of the network; and a send
\* is accepted only when no request and no response is outstanding.
C12_OneRequestInFlight ==
  [][/\ lastCall'.op = "handleSend" /\ isLoading
          => UNCHANGED <<feVars, netVars, beVars>>
     /\ SendAccepted
          => ~isLoading /\ chatReq = NoRequest /\ chatResp = NoResponse]_vars

\* handleSend was called with a sendable text while the request of the send
\* in flight was already taken up by the backend
C12_Witness ==
  /\ lastCall.op = "handleSend"
  /\ ~IsBlank(lastCall.arg)
  /\ isLoading
  /\ sendPc = "await"
  /\ chatReq.status = "taken"


\* C13: when the chat request of an accepted send fails, handleSend sets
\* error to the failure's message (the detail of the error response, or the
\* connection message when no response arrived), appends exactly one message,
\* of role agent, with content 'Sorry, I encountered an error: <message>' and
\* no toolUsed or toolOutput, and adds no entry to the tool log.
C13_FailedSendReported ==
  [][/\ SendSettles /\ chatResp.status # "ok" => error' # Null
     /\ SendFails =>
          /\ error' \in
               (IF chatResp.status = "error" THEN {chatResp.detail} ELSE {})
                 \cup {"Unable to connect to the server. Is the backend running?"}
          /\ Len(messages') = Len(messages) + 1
          /\ SubSeq(messages', 1, Len(messages)) = messages
          /\ messages'[Len(messages')].role = "agent"
          /\ messages'[Len(messages')].content =
               <<"Sorry, I encountered an error: ", error'>>
          /\ messages'[Len(messages')].toolUsed = Undefined
          /\ messages'[Len(messages')].toolOutput = Undefined
          /\ toolLogs' = toolLogs]_vars

\* a send failed after a turn that used a tool: the error is set, the last
\* message is the apology for it, the tool log still has its one entry
C13_Witness ==
  /\ sendPc = "idle"
  /\ error # Null
  /\ Len(messages) = 4
  /\ messages[4].content = <<"Sorry, I encountered an error: ", error>>
  /\ messages[2].toolUsed \in ToolNames
  /\ Len(toolLogs) = 1


\* C14: every accepted send eventually ends with isLoading false, whether its
\* request succeeds or fails: isLoading is true exactly while handleSend is
\* suspended at its await, it is set in the step that appends the user
\* message, reset in the step in which the request settles, on either
\* outcome, and changed by no other step (the client is idle again and again:
\* no send stays in flight for ever).
C14_LoadingEndsWhenSendSettles ==
  /\ [](isLoading <=> sendPc = "await")
  /\ [][/\ SendAccepted =>
             ~isLoading /\ isLoading' /\ Len(messages') = Len(messages) + 1
        /\ SendSettles => isLoading /\ ~isLoading'
        /\ isLoading' # isLoading => SendAccepted \/ SendSettles]_vars
  /\ []<>(~isLoading)

\* one send succeeded and the next one failed, and the client is idle again
C14_Witness ==
  /\ ~isLoading
  /\ sendPc = "idle"
  /\ Len(messages) = 4
  /\ messages[2].content = <<"final_text">>
  /\ error # Null


\* C15: when the clear-history request fails, handleClearChat leaves the
\* message list and the tool log unchanged; a clear that settles without
\* failing leaves both empty; and the message list is emptied by no other
\* step than a clear whose request succeeded, which empties the tool log in
\* the same step.
C15_FailedClearChangesNothing ==
  [][/\ lastCall'.op = "clearFailed"
          => ClearSettles /\ UNCHANGED <<messages, toolLogs>>
     /\ ClearSettles /\ lastCall'.op # "clearFailed"
          => clearAcks' < clearAcks /\ messages' = <<>> /\ toolLogs' = <<>>
     /\ messages' = <<>> /\ messages # <<>>
          => /\ ClearSettles /\ lastCall'.op # "clearFailed"
             /\ toolLogs' = <<>>]_vars

\* a clear failed while the list held a turn that used a tool: both the
\* messages and the log entry are still there
C15_Witness ==
  /\ lastCall.op = "clearFailed"
  /\ Len(messages) = 2
  /\ Len(toolLogs) = 1


\* C16: in every reachable state of the UI, also when Clear Chat was clicked
\* while a send was in flight, every agent message directly follows a user
\* message: the list does not start with an agent message and holds no two
\* agent messages in a row.
C16_AgentFollowsItsUserMessage ==
  \A i \in 1..Len(messages) :
    messages[i].role = "agent" => i > 1 /\ messages[i - 1].role = "user"


\* C17: the ids of the messages in the list are pairwise distinct in every
\* reachable state, for any timing of sends and responses.
C17_MessageIdsDistinct ==
  \A i, j \in 1..Len(messages) : i # j => messages[i].id # messages[j].id

=============================================================================
